---- MODULE Spec2Model ----
(***************************************************************************)
(* IPP message codec (lib/message.js, lib/decode.js, lib/type.js) and the  *)
(* streaming header parser (lib/stream-parser.js).                         *)
(*                                                                         *)
(* A Buffer is a sequence of octets 0..255; offsets are 0-based as in the  *)
(* source, so octet `pos` of buffer `data` is data[pos + 1].  A JS string  *)
(* is the sequence of its character codes.  Errors carry the message text  *)
(* of the `throw` that raised them.                                        *)
(*                                                                         *)
(* Environment assumptions: listeners attached to the stream parser do not *)
(* throw; Buffer and fs behave as in the Node.js releases the source was   *)
(* written for (`new Buffer(n)`, fs.writeFile without callback allowed, so *)
(* the file written by toBuffer has no effect on its result).  dateTime    *)
(* values (tag 0x31) depend on the host's time zone and calendar and are   *)
(* not part of the value universe of this model.                           *)
(***************************************************************************)
EXTENDS Integers, Sequences, FiniteSets, TLC

VARIABLES
    pc,         \* position of the scenario
    raw,        \* codec: the buffer handed to parse()
    model,      \* codec: the message object handed to toBuffer()
    decoded,    \* codec: outcome of new IPPMessage( buffer )
    encoded,    \* codec: outcome of IPPMessage.toBuffer()
    whole,      \* stream: all octets the source is going to write
    source,     \* stream: octets not yet written
    parser,     \* stream: the IPPMessageStreamParser and what it has emitted
    call,       \* library call: the function called and its arguments
    outcome     \* library call: what the function returned or threw

vars == << pc, raw, model, decoded, encoded, whole, source, parser, call, outcome >>

codecVars == << raw, model, decoded, encoded >>
streamVars == << whole, source, parser >>
callVars == << call, outcome >>

(***************************************************************************)
(* Bounds of the model.                                                    *)
(***************************************************************************)
\* largest size of a chunk written to the stream parser, short of "all the rest"
MaxChunk == 3
\* iterations of the attribute loop after which a decode is reported as not finished
MaxRecords == 12

(***************************************************************************)
(* Buffer primitives.                                                      *)
(***************************************************************************)
Octet == 0..255

Slice(data, from, to) ==
    \* data.slice( from, to ): a negative index counts from the end, both are
    \* clamped to the buffer, empty when to <= from
    LET len == Len(data)
        f == IF from < 0 THEN (IF len + from < 0 THEN 0 ELSE len + from)
             ELSE IF from > len THEN len ELSE from
        t == IF to < 0 THEN (IF len + to < 0 THEN 0 ELSE len + to)
             ELSE IF to > len THEN len ELSE to
    IN  IF t <= f THEN << >> ELSE SubSeq(data, f + 1, t)

StringRange(data, start, end) ==
    \* the octets data.toString( encoding, start, end ) converts: both are clamped
    \* to the buffer, none when end <= start
    LET f == IF start < 0 THEN 0 ELSE IF start > Len(data) THEN Len(data) ELSE start
        t == IF end < 0 THEN 0 ELSE IF end > Len(data) THEN Len(data) ELSE end
    IN  IF t <= f THEN << >> ELSE SubSeq(data, f + 1, t)

InRange(data, pos, n) == pos >= 0 /\ pos + n <= Len(data)

readUInt8(data, pos) == data[pos + 1]

readInt8(data, pos) ==
    IF data[pos + 1] >= 128 THEN data[pos + 1] - 256 ELSE data[pos + 1]

readInt16BE(data, pos) ==
    LET hi == IF data[pos + 1] >= 128 THEN data[pos + 1] - 256 ELSE data[pos + 1]
    IN  hi * 256 + data[pos + 2]

readInt32BE(data, pos) ==
    LET hi == IF data[pos + 1] >= 128 THEN data[pos + 1] - 256 ELSE data[pos + 1]
    IN  hi * 16777216 + data[pos + 2] * 65536 + data[pos + 3] * 256 + data[pos + 4]

FitsInt8(v) == v >= -128 /\ v <= 127
FitsInt16(v) == v >= -32768 /\ v <= 32767

writeInt8(v) == << (v + 256) % 256 >>

writeInt16BE(v) ==
    LET u == (v + 65536) % 65536
    IN  << u \div 256, u % 256 >>

writeInt32BE(v) ==
    \* two's complement of a value in -2^31 .. 2^31-1, most significant octet first
    LET hi == ((v \div 16777216) + 256) % 256
        lo == v % 16777216
    IN  << hi, lo \div 65536, (lo \div 256) % 256, lo % 256 >>

asciiSlice(bytes) ==
    \* buffer.toString( "ascii" ): the high bit of every octet is dropped
    [i \in 1..Len(bytes) |-> bytes[i] % 128]

RECURSIVE utf8Slice(_)
utf8Slice(bytes) ==
    \* buffer.toString( "utf8" ) for one- and two-octet sequences; every octet
    \* that starts no such sequence decodes to U+FFFD
    IF bytes = << >> THEN << >>
    ELSE IF Head(bytes) < 128 THEN << Head(bytes) >> \o utf8Slice(Tail(bytes))
    ELSE IF /\ Head(bytes) >= 194 /\ Head(bytes) <= 223 /\ Len(bytes) >= 2
            /\ bytes[2] >= 128 /\ bytes[2] <= 191
         THEN << (Head(bytes) - 192) * 64 + (bytes[2] - 128) >>
                 \o utf8Slice(Tail(Tail(bytes)))
    ELSE << 65533 >> \o utf8Slice(Tail(bytes))

RECURSIVE utf8Write(_)
utf8Write(string) ==
    \* new Buffer( string, "utf8" ) for characters of the basic multilingual plane
    IF string = << >> THEN << >>
    ELSE LET c == Head(string)
         IN  (IF c < 128 THEN << c >>
              ELSE IF c < 2048 THEN << 192 + (c \div 64), 128 + (c % 64) >>
              ELSE << 224 + (c \div 4096), 128 + ((c \div 64) % 64), 128 + (c % 64) >>)
             \o utf8Write(Tail(string))

asciiWrite(string) ==
    \* buffer.write( string, offset, length, "ascii" ): low octet of every character
    [i \in 1..Len(string) |-> string[i] % 256]

\* the one element of a singleton set: { f(x) : x \in { e } } evaluates e once
The(S) == CHOOSE x \in S : TRUE

(***************************************************************************)
(* Tag tables (lib/data.js).                                               *)
(***************************************************************************)
\* DATA.ATTRIBUTE_GROUP: tag -> name; 0x03 maps to null, every other tag is undefined
GroupTags == {1, 2, 4, 5}
EndTag == 3

\* a table that takes every tag below 0x10 it does not name for the end marker
ATTRIBUTE_GROUP_lenient(tag) ==
    CASE tag = 1 -> "operation"
      [] tag = 2 -> "job"
      [] tag = 4 -> "printer"
      [] tag = 5 -> "unsupported"
      [] tag >= 0 /\ tag < 16 -> "null"
      [] OTHER -> "undefined"

ATTRIBUTE_GROUP(tag) ==
    CASE tag = 1 -> "operation"
      [] tag = 2 -> "job"
      [] tag = 3 -> "null"
      [] tag = 4 -> "printer"
      [] tag = 5 -> "unsupported"
      [] OTHER -> "undefined"

\* DATA.ATTRIBUTE_TYPE
TagUnsupported == 16
TagDefault == 17
TagUnknown == 18
TagNoValue == 19
TagInteger == 33
TagBoolean == 34
TagEnum == 35
TagOctetString == 48
TagResolution == 50
TagRangeOfInteger == 51
TagTextWithLanguage == 53
TagNameWithLanguage == 54
TagTextWithoutLanguage == 65
TagNameWithoutLanguage == 66
TagKeyword == 68
TagCharset == 71
TagNaturalLanguage == 72
TagExtension == 127

\* TypeResolution.PER_INCH, TypeResolution.PER_CM
PER_INCH == 3
PER_CM == 4

(***************************************************************************)
(* Value model (lib/type.js).  Every value is a record                     *)
(*   cls  : the JS class and, for TypeNative, the kind of the wrapped value*)
(*   type : the value tag (this.type)                                      *)
(*   a    : the numeric fields, s : the string or octets, l : the language *)
(***************************************************************************)
Value(cls, type, a, s, l) == [cls |-> cls, type |-> type, a |-> a, s |-> s, l |-> l]

TypeDefault == Value("TypeDefault", TagDefault, << >>, << >>, << >>)
TypeUnknown == Value("TypeUnknown", TagUnknown, << >>, << >>, << >>)
TypeNoValue == Value("TypeNoValue", TagNoValue, << >>, << >>, << >>)

NativeNumber(type, n) == Value("number", type, << n >>, << >>, << >>)
NativeBoolean(type, b) == Value("boolean", type, << IF b THEN 1 ELSE 0 >>, << >>, << >>)
NativeBuffer(type, octets) == Value("Buffer", type, << >>, octets, << >>)
NativeString(type, string) == Value("string", type, << >>, string, << >>)

TypeResolution(x, y, unit) == Value("TypeResolution", TagResolution, << x, y, unit >>, << >>, << >>)

Min(a, b) == IF a <= b THEN a ELSE b
Max(a, b) == IF a >= b THEN a ELSE b

\* a range that keeps its limits as they were given
TypeRange_asGiven(lower, upper) ==
    Value("TypeRange", TagRangeOfInteger, << lower, upper >>, << >>, << >>)

TypeRange(lower, upper) ==
    Value("TypeRange", TagRangeOfInteger, << Min(lower, upper), Max(lower, upper) >>, << >>, << >>)

TypeStringWithLanguage(type, string, language) ==
    Value("TypeStringWithLanguage", type, << >>, string, language)

NoValue == Value("none", 0, << >>, << >>, << >>)

(***************************************************************************)
(* Value decoders (lib/decode.js).  A decoder returns the value or the     *)
(* message of the error it throws; oob tells that it asked the buffer for  *)
(* an octet outside of it (Buffer then throws a RangeError).               *)
(***************************************************************************)
Decoded(value) == [ok |-> TRUE, cause |-> "", oob |-> FALSE, value |-> value]
DecodeError(text) == [ok |-> FALSE, cause |-> text, oob |-> FALSE, value |-> NoValue]
DecodeRangeError == [ok |-> FALSE, cause |-> "RangeError: index out of range", oob |-> TRUE, value |-> NoValue]

\* tags for which lib/decode.js holds a function once the aliases are resolved
\* (0x31, dateTime, is left out of the model)
DecoderTags == {17, 18, 19, 33, 34, 35, 48, 50, 51, 53, 54, 65, 66, 68, 69, 70, 71, 72, 73}

decodeInteger(data, pos, length, type) ==
    IF length # 4 THEN DecodeError("invalid integer size")
    ELSE IF ~InRange(data, pos, 4) THEN DecodeRangeError
    ELSE Decoded(NativeNumber(type, readInt32BE(data, pos)))

decodeBoolean(data, pos, length, type) ==
    IF length # 1 THEN DecodeError("invalid size of bool")
    ELSE IF ~InRange(data, pos, 1) THEN DecodeRangeError
    ELSE Decoded(NativeBoolean(type, readInt8(data, pos) # 0))

decodeOctetString(data, pos, length, type) ==
    Decoded(NativeBuffer(type, Slice(data, pos, pos + length)))

decodeResolution(data, pos, length) ==
    IF length # 9 THEN DecodeError("invalid size")
    ELSE IF ~InRange(data, pos, 9) THEN DecodeRangeError
    ELSE LET x == readInt32BE(data, pos)
             y == readInt32BE(data, pos + 4)
             unit == readInt8(data, pos + 8)
         IN  IF unit # PER_INCH /\ unit # PER_CM
             THEN DecodeError("unsupported resolution unit")
             ELSE Decoded(TypeResolution(x, y, unit))

decodeRange(data, pos, length) ==
    IF length # 8 THEN DecodeError("invalid size")
    ELSE IF ~InRange(data, pos, 8) THEN DecodeRangeError
    ELSE Decoded(TypeRange(readInt32BE(data, pos), readInt32BE(data, pos + 4)))

decodeStringWithLanguage(data, pos, length, type) ==
    IF length < 2 THEN DecodeError("met EOM while reading length of naturalLanguage")
    ELSE IF ~InRange(data, pos, 2) THEN DecodeRangeError
    ELSE LET languageLength == readInt16BE(data, pos)
             pos1 == pos + 2
         IN  IF length < 2 + languageLength
             THEN DecodeError("met EOM while reading naturalLanguage")
             ELSE LET language == asciiSlice(StringRange(data, pos1, pos1 + languageLength))
                      pos2 == pos1 + languageLength
                  IN  IF length < 4 + languageLength
                      THEN DecodeError("met EOM while reading length of included WithLanguage")
                      ELSE IF ~InRange(data, pos2, 2) THEN DecodeRangeError
                      ELSE LET stringLength == readInt16BE(data, pos2)
                               pos3 == pos2 + 2
                           IN  IF length < 4 + languageLength + stringLength
                               THEN DecodeError("met EOM while reading included WithLanguage")
                               \* data.toString( pos, pos + stringLength ): the offset is
                               \* taken as the encoding and the end as the start; the call
                               \* returns "" when that start is at or behind the end of the
                               \* buffer and throws "Unknown encoding" otherwise
                               ELSE IF pos3 + stringLength < Len(data)
                               THEN DecodeError("TypeError: Unknown encoding")
                               ELSE IF pos3 + stringLength < length
                               THEN DecodeError("invalid extra content")
                               ELSE Decoded(TypeStringWithLanguage(type, << >>, language))

decodeUtf8String(data, pos, length, type) ==
    Decoded(NativeString(type, utf8Slice(StringRange(data, pos, pos + length))))

decodeAsciiString(data, pos, length, type) ==
    Decoded(NativeString(type, asciiSlice(StringRange(data, pos, pos + length))))

decoders(data, pos, length, type) ==
    CASE type = 17 -> Decoded(TypeDefault)
      [] type = 18 -> Decoded(TypeUnknown)
      [] type = 19 -> Decoded(TypeNoValue)
      [] type \in {33, 35} -> decodeInteger(data, pos, length, type)
      [] type = 34 -> decodeBoolean(data, pos, length, type)
      [] type = 48 -> decodeOctetString(data, pos, length, type)
      [] type = 50 -> decodeResolution(data, pos, length)
      [] type = 51 -> decodeRange(data, pos, length)
      [] type \in {53, 54} -> decodeStringWithLanguage(data, pos, length, type)
      [] type \in {65, 66} -> decodeUtf8String(data, pos, length, type)
      [] type \in {68, 69, 70, 71, 72, 73} -> decodeAsciiString(data, pos, length, type)
      [] OTHER -> DecodeError("not a function")

(***************************************************************************)
(* Message model and decoder (lib/message.js).                             *)
(*   version    : << major, minor >>, the two numbers of the string "a.b"  *)
(*   code, id   : << >> for null, else << number >>                        *)
(*   attributes : per group the pool, a sequence of [name, values] in the  *)
(*                order the names were inserted (Object.keys order)        *)
(*   data       : << >> when the property is not set, else << buffer >>    *)
(***************************************************************************)
GroupNames == {"operation", "job", "printer", "unsupported"}

EmptyAttributes == [g \in GroupNames |-> << >>]

EmptyMessage ==
    [version |-> << 1, 1 >>, code |-> << >>, id |-> << >>,
     attributes |-> EmptyAttributes, data |-> << >>]

RECURSIVE IndexOfName(_, _, _)
IndexOfName(pool, name, i) ==
    \* position of `name` among the keys of the pool, 0 when it is no key
    IF i > Len(pool) THEN 0
    ELSE IF pool[i].name = name THEN i
    ELSE IndexOfName(pool, name, i + 1)

StoreValue(pool, name, value) ==
    \* if ( name in pool ) pool[name].push( value ) else pool[name] = [value]
    LET i == IndexOfName(pool, name, 1)
    IN  IF i > 0
        THEN [pool EXCEPT ![i].values = Append(@, value)]
        ELSE Append(pool, [name |-> name, values |-> << value >>])

\* a name as another call of _parseAttributes left it
undefinedName_stale == << 97 >>

\* the local variable name of _parseAttributes before its first assignment
undefinedName == << >>

Thrown(text, cause, oob) ==
    [kind |-> "throw", ok |-> FALSE, err |-> text, cause |-> cause, oob |-> oob,
     pos |-> 0, pool |-> << >>, name |-> << >>]

Returned(pos, pool) ==
    [kind |-> "return", ok |-> TRUE, err |-> "", cause |-> "", oob |-> FALSE,
     pos |-> pos, pool |-> pool, name |-> << >>]

Continued(pos, pool, name) ==
    [kind |-> "next", ok |-> TRUE, err |-> "", cause |-> "", oob |-> FALSE,
     pos |-> pos, pool |-> pool, name |-> name]

\* an extended value whose type octets are counted as part of the value
extendedValueLength_whole(valueLength) == valueLength

extendedValueLength(valueLength) ==
    \* valueLength -= 4, after the four octets of the extended type were read
    valueLength - 4

parseAttribute(data, pos, pool, name) ==
    \* one iteration of the while loop of _parseAttributes, entered with pos < length;
    \* `name` is << >> while the local variable is undefined
    LET length == Len(data)
    IN
    \* data.readInt8( _pos ) at an offset a negative value-length moved before the buffer
    IF pos < 0 THEN Thrown("RangeError: Index out of range", "", TRUE)
    ELSE IF readInt8(data, pos) < 0 THEN Thrown("invalid type of attribute", "", FALSE)
    ELSE IF readInt8(data, pos) < 16 THEN Returned(pos, pool)
    ELSE IF pos + 1 + 2 > length
         THEN Thrown("met EOM while reading length of attribute' name", "", FALSE)
    ELSE IF readInt16BE(data, pos + 1) < 0
         THEN Thrown("invalid length of attribute's name", "", FALSE)
    ELSE
    LET tag == readInt8(data, pos)
        nameLength == readInt16BE(data, pos + 1)
        p1 == pos + 3
        p2 == p1 + nameLength
        newName == IF nameLength > 0 THEN asciiSlice(StringRange(data, p1, p2)) ELSE name
    IN
    IF nameLength > 0 /\ p2 > length
         THEN Thrown("met EOM while reading attribute's name ", "", FALSE)
    ELSE IF nameLength = 0 /\ name = << >>
         THEN Thrown("unexpected additional value", "", FALSE)
    ELSE IF p2 + 2 > length
         THEN Thrown("met EOM while reading length of attribute's value", "", FALSE)
    ELSE
    LET valueLength0 == readInt16BE(data, p2)
        p3 == p2 + 2
    IN
    IF valueLength0 > 0 /\ p3 + valueLength0 > length
         THEN Thrown("met EOM while reading value of attribute", "", FALSE)
    ELSE IF tag = TagExtension /\ valueLength0 < 4
         THEN Thrown("met EOM while reading extended value tag of attribute", "", FALSE)
    ELSE IF tag = TagExtension /\ ~InRange(data, p3, 4)
         THEN Thrown("RangeError: index out of range", "", TRUE)
    ELSE
    LET type == IF tag = TagExtension THEN readInt32BE(data, p3) ELSE tag
        p4 == IF tag = TagExtension THEN p3 + 4 ELSE p3
        valueLength == IF tag = TagExtension THEN extendedValueLength(valueLength0)
                                              ELSE valueLength0
    IN
    IF type \notin DecoderTags
         THEN Thrown("unsupported type of attribute's value", "", FALSE)
    ELSE The({ IF ~converted.ok
               THEN Thrown("on converting value of attribute", converted.cause, converted.oob)
               ELSE Continued(p4 + valueLength, StoreValue(pool, newName, converted.value),
                              newName) :
               converted \in { decoders(data, p4, valueLength, type) } })

RECURSIVE parseAttributes(_, _, _, _, _)
parseAttributes(data, pos, pool, name, fuel) ==
    \* IPPMessage.prototype._parseAttributes: the loop runs while _pos < length
    IF fuel = 0 THEN Thrown("attribute loop still running", "", FALSE)
    ELSE IF ~(pos < Len(data)) THEN Thrown("met EOM while reading attribute type", "", FALSE)
    ELSE The({ IF it.kind = "next"
               THEN parseAttributes(data, it.pos, it.pool, it.name, fuel - 1)
               ELSE it :
               it \in { parseAttribute(data, pos, pool, name) } })

Failure(text, cause, oob) ==
    [ok |-> FALSE, err |-> text, cause |-> cause, oob |-> oob, msg |-> EmptyMessage]

Success(msg) == [ok |-> TRUE, err |-> "", cause |-> "", oob |-> FALSE, msg |-> msg]

parseContent(data, pos, msg) ==
    \* this.data = data.slice( pos )
    Success([msg EXCEPT !.data = << Slice(data, pos, Len(data)) >>])

\* a bucket made anew for every occurrence of a group
bucket_fresh(msg, name) == << >>

bucket(msg, name) ==
    \* this.attributes[name], the pool handed to _parseAttributes
    msg.attributes[name]

RECURSIVE parseAttributeGroup(_, _, _, _)
parseAttributeGroup(data, pos, msg, fuel) ==
    \* IPPMessage.prototype._parseAttributeGroup, one iteration per unfolding
    IF fuel = 0 THEN Failure("attribute loop still running", "", FALSE)
    ELSE IF ~(pos < Len(data)) THEN Failure("unexpected EOM", "", FALSE)
    ELSE
    LET name == ATTRIBUTE_GROUP(readUInt8(data, pos))
    IN
    IF name = "null" THEN parseContent(data, pos + 1, msg)
    ELSE IF name = "undefined" THEN Failure("unsupported attribute group type", "", FALSE)
    ELSE The({ IF ~r.ok THEN Failure(r.err, r.cause, r.oob)
               ELSE parseAttributeGroup(data, r.pos,
                                        [m EXCEPT !.attributes[name] = r.pool], fuel - 1) :
               r \in { parseAttributes(data, pos + 1, bucket(msg, name), undefinedName,
                                        fuel) },
               m \in { msg } })

parseHeader(data) ==
    \* version, code and id of IPPMessage.prototype._parse
    [EmptyMessage EXCEPT !.version = << readInt8(data, 0), readInt8(data, 1) >>,
                         !.code = << readInt16BE(data, 2) >>,
                         !.id = << readInt32BE(data, 4) >>]

MinMessageSize == 8

IPPMessage(rawBuffer) ==
    \* new IPPMessage( rawBuffer ), which is what parse( rawBuffer ) returns
    IF ~(Len(rawBuffer) > 0) THEN Success(EmptyMessage)
    ELSE IF Len(rawBuffer) < MinMessageSize
         THEN Failure("missing required information in message", "", FALSE)
    ELSE parseAttributeGroup(rawBuffer, MinMessageSize, parseHeader(rawBuffer), MaxRecords)

(***************************************************************************)
(* Encoder: Type.toBuffer (lib/type.js) and IPPMessage.toBuffer            *)
(* (lib/message.js).                                                       *)
(***************************************************************************)
Compiled(buffer) == [ok |-> TRUE, err |-> "", buf |-> buffer]
CompileError(text) == [ok |-> FALSE, err |-> text, buf |-> << >>]

emptyValueToBuffer == << 0, 0 >>

TypeNativeToBuffer(value) ==
    CASE value.cls = "Buffer" -> Compiled(value.s)
      [] value.cls = "string" ->
            LET data == utf8Write(value.s)
            IN  IF FitsInt16(Len(data)) THEN Compiled(writeInt16BE(Len(data)) \o data)
                ELSE CompileError("value is out of bounds")
      [] value.cls = "boolean" -> Compiled(writeInt16BE(1) \o writeInt8(value.a[1]))
      [] value.cls = "number" -> Compiled(writeInt16BE(4) \o writeInt32BE(value.a[1]))
      [] OTHER -> CompileError("unsupported native value")

TypeResolutionToBuffer(value) ==
    Compiled(writeInt16BE(9) \o writeInt32BE(value.a[1]) \o writeInt32BE(value.a[2])
             \o writeInt8(IF value.a[3] = 0 THEN PER_INCH ELSE value.a[3]))

TypeRangeToBuffer(value) ==
    \* a buffer of ten octets: the length field says 9, eight octets follow
    Compiled(writeInt16BE(9) \o writeInt32BE(value.a[1]) \o writeInt32BE(value.a[2]))

TypeStringWithLanguageToBuffer(value) ==
    \* new Buffer( this.value, "utf8" ) with this.value undefined
    CompileError("TypeError: first argument must be a string, Buffer, ArrayBuffer, Array, or array-like object")

ValueToBuffer(value) ==
    CASE value.cls \in {"TypeDefault", "TypeUnknown", "TypeNoValue"} -> Compiled(emptyValueToBuffer)
      [] value.cls \in {"Buffer", "string", "boolean", "number"} -> TypeNativeToBuffer(value)
      [] value.cls = "TypeResolution" -> TypeResolutionToBuffer(value)
      [] value.cls = "TypeRange" -> TypeRangeToBuffer(value)
      [] value.cls = "TypeStringWithLanguage" -> TypeStringWithLanguageToBuffer(value)
      [] OTHER -> CompileError("generic type must not be converted to buffer")

compileHeader(msg) ==
    LET major == msg.version[1]
        minor == msg.version[2]
    IN  IF major < 1 \/ major > 255 \/ minor < 0 \/ minor > 255
        THEN CompileError("invalid version")
        ELSE IF ~FitsInt8(major) \/ ~FitsInt8(minor)
        THEN CompileError("value is out of bounds")
        ELSE IF msg.code # << >> /\ ~FitsInt16(msg.code[1])
        THEN CompileError("value is out of bounds")
        ELSE IF msg.id = << >> \/ msg.id = << 0 >>
        THEN CompileError("missing request-id")
        ELSE Compiled(writeInt8(major) \o writeInt8(minor)
                      \o writeInt16BE(IF msg.code = << >> THEN 0 ELSE msg.code[1])
                      \o writeInt32BE(msg.id[1]))

compileAttribute(name, value) ==
    \* tag, length of name, name, then the value's own buffer
    LET payload == ValueToBuffer(value)
    IN  IF ~payload.ok THEN payload
        ELSE Compiled(writeInt8(value.type) \o writeInt16BE(Len(name)) \o asciiWrite(name)
                      \o payload.buf)

Joined(first, rest) ==
    \* buffers pushed one after the other; the first throw ends the compilation
    IF ~first.ok THEN first
    ELSE IF ~rest.ok THEN rest
    ELSE Compiled(first.buf \o rest.buf)

RECURSIVE compileValues(_, _, _)
compileValues(name, values, index) ==
    \* values.forEach( ( value, index ) => _compileAttribute( buffers, index ? "" : name, value ) )
    IF index > Len(values) THEN Compiled(<< >>)
    ELSE The({ Joined(first, rest) :
               first \in { compileAttribute(IF index > 1 THEN << >> ELSE name, values[index]) },
               rest \in { compileValues(name, values, index + 1) } })

RECURSIVE compileAttributeGroup(_, _)
compileAttributeGroup(pool, i) ==
    \* Object.keys( pool ).forEach( ... )
    IF i > Len(pool) THEN Compiled(<< >>)
    ELSE The({ Joined(first, rest) :
               first \in { compileValues(pool[i].name, pool[i].values, 1) },
               rest \in { compileAttributeGroup(pool, i + 1) } })

RECURSIVE IndexOf(_, _, _)
IndexOf(seq, x, i) ==
    IF i > Len(seq) THEN 0 ELSE IF seq[i] = x THEN i ELSE IndexOf(seq, x, i + 1)

GroupRank(sortedGroupNames, tag) ==
    \* positional index of the tag's name in the list, else a fixed late position
    LET name == ATTRIBUTE_GROUP(tag)
    IN  IF IndexOf(sortedGroupNames, name, 1) > 0 THEN IndexOf(sortedGroupNames, name, 1) - 1
        ELSE IF name = "null" THEN 999999 ELSE 99999

getProperlySortedGroups(sortedGroupNames) ==
    SortSeq(<< 1, 2, 3, 4, 5 >>,
            LAMBDA l, r: GroupRank(sortedGroupNames, l) < GroupRank(sortedGroupNames, r))

\* the order operation, job, printer, unsupported
GroupOrder_byTag == << "operation", "job", "printer", "unsupported" >>

GroupOrder == << "operation", "printer", "job", "unsupported" >>

compileGroup(msg, tag) ==
    \* the callback of the forEach over the sorted tags
    LET name == ATTRIBUTE_GROUP(tag)
    IN  IF name \in GroupNames /\ Len(msg.attributes[name]) > 0
        THEN Joined(Compiled(writeInt8(tag)), compileAttributeGroup(msg.attributes[name], 1))
        ELSE Compiled(<< >>)

RECURSIVE compileGroupsIn(_, _, _)
compileGroupsIn(msg, tags, i) ==
    IF i > Len(tags) THEN Compiled(<< >>)
    ELSE The({ Joined(first, rest) :
               first \in { compileGroup(msg, tags[i]) },
               rest \in { compileGroupsIn(msg, tags, i + 1) } })

compileAttributeGroups(msg) ==
    The({ Joined(groups, Compiled(writeInt8(EndTag))) :
          groups \in { The({ compileGroupsIn(msg, tags, 1) :
                             tags \in { getProperlySortedGroups(GroupOrder) } }) } })

compileData(msg) == IF msg.data # << >> THEN msg.data[1] ELSE << >>

toBuffer(msg) ==
    The({ Joined(header, Joined(groups, Compiled(compileData(msg)))) :
          header \in { compileHeader(msg) },
          groups \in { compileAttributeGroups(msg) } })

(***************************************************************************)
(* Stream parser (lib/stream-parser.js).                                   *)
(***************************************************************************)
HeaderStart == 8

Scanning(pos, readGroup) == [done |-> FALSE, result |-> -1, pos |-> pos, readGroup |-> readGroup]
Scanned(result) == [done |-> TRUE, result |-> result, pos |-> 0, readGroup |-> FALSE]

\* a scan that gives up at an octet that is neither the end marker nor a group tag
scanStep_strict(buffer, pos, readGroup) ==
    LET len == Len(buffer)
    IN
    IF readGroup
    THEN IF ATTRIBUTE_GROUP(readInt8(buffer, pos)) = "null" THEN Scanned(pos + 1)
         ELSE IF ATTRIBUTE_GROUP(readInt8(buffer, pos)) = "undefined" THEN Scanned(-1)
         ELSE Scanning(pos + 1, FALSE)
    ELSE IF ATTRIBUTE_GROUP(readInt8(buffer, pos)) # "undefined"
    THEN Scanning(pos, TRUE)
    ELSE IF ~(pos + 1 + 1 < len) THEN Scanning(pos + 1, FALSE)
    ELSE IF readInt16BE(buffer, pos + 1) < 0 THEN Scanned(-1)
    ELSE LET p1 == pos + 1 + 2 + readInt16BE(buffer, pos + 1)
         IN  IF ~(p1 + 1 < len) THEN Scanning(p1, FALSE)
             ELSE IF readInt16BE(buffer, p1) < 0 THEN Scanned(-1)
             ELSE Scanning(p1 + 2 + readInt16BE(buffer, p1), FALSE)

scanStep(buffer, pos, readGroup) ==
    \* one iteration of the while loop of _getEndOfHeaderIndex, entered with pos < len
    LET len == Len(buffer)
    IN
    IF readGroup
    THEN IF ATTRIBUTE_GROUP(readInt8(buffer, pos)) = "null" THEN Scanned(pos + 1)
         ELSE Scanning(pos + 1, FALSE)
    ELSE IF ATTRIBUTE_GROUP(readInt8(buffer, pos)) # "undefined"
    THEN Scanning(pos, TRUE)
    ELSE IF ~(pos + 1 + 1 < len) THEN Scanning(pos + 1, FALSE)
    ELSE IF readInt16BE(buffer, pos + 1) < 0 THEN Scanned(-1)
    ELSE LET p1 == pos + 1 + 2 + readInt16BE(buffer, pos + 1)
         IN  IF ~(p1 + 1 < len) THEN Scanning(p1, FALSE)
             ELSE IF readInt16BE(buffer, p1) < 0 THEN Scanned(-1)
             ELSE Scanning(p1 + 2 + readInt16BE(buffer, p1), FALSE)

RECURSIVE scanHeader(_, _, _)
scanHeader(buffer, pos, readGroup) ==
    IF ~(pos < Len(buffer)) THEN -1
    ELSE The({ IF it.done THEN it.result ELSE scanHeader(buffer, it.pos, it.readGroup) :
               it \in { scanStep(buffer, pos, readGroup) } })

getEndOfHeaderIndex(buffer) == scanHeader(buffer, HeaderStart, TRUE)

\* the parser object: _collector and _message are << >> while null, _error is ""
\* while null; log holds the kinds of the events emitted and the pushes made, in
\* order; delivered the arguments of the "message" events; pushed all octets pushed;
\* wrote says that _write was called, done holds the arguments its latest call has
\* given to its callback onDone
NewParser ==
    [collector |-> << >>, message |-> << >>, error |-> "", metEof |-> FALSE,
     log |-> << >>, delivered |-> << >>, pushed |-> << >>, wrote |-> FALSE, done |-> << >>]

called(st) ==
    \* _write( chunk, encoding, onDone ) was entered
    [st EXCEPT !.wrote = TRUE, !.done = << >>]

onDone(st, error) ==
    \* onDone( null )
    [st EXCEPT !.done = Append(@, error)]

idle(st) ==
    \* no _write is waiting for its callback
    ~st.wrote \/ st.done # << >>

emitError(st, text) ==
    \* this.emit( "error", error ) with the constructor's listener storing it
    [st EXCEPT !.error = text, !.log = Append(@, "error")]

emitMessage(st, msg) ==
    [st EXCEPT !.log = Append(@, "message"), !.delivered = Append(@, msg)]

push(st, chunk) ==
    [st EXCEPT !.log = Append(@, "data"), !.pushed = @ \o chunk]

pushIfAny(st, chunk) ==
    \* if ( this._message && chunk.length > 0 ) this.push( chunk )
    IF st.message # << >> /\ Len(chunk) > 0 THEN push(st, chunk) ELSE st

\* a parser that keeps the collected octets after the message was parsed
collect_keepingCollector(st, chunk) ==
    LET collected == IF st.collector = << >> THEN chunk ELSE st.collector[1] \o chunk
        EOHindex == getEndOfHeaderIndex(collected)
        parsed == IPPMessage(Slice(collected, 0, EOHindex))
    IN  IF EOHindex < 0 THEN [st EXCEPT !.collector = << collected >>]
        ELSE IF parsed.ok
        THEN pushIfAny(emitMessage([st EXCEPT !.message = << parsed.msg >>,
                                              !.collector = << collected >>], parsed.msg),
                       Slice(collected, EOHindex, Len(collected)))
        ELSE emitError([st EXCEPT !.collector = << collected >>], parsed.err)

collect(st, chunk) ==
    \* appends the chunk to the collector and looks for the end of the header
    LET collected == IF st.collector = << >> THEN chunk ELSE st.collector[1] \o chunk
        EOHindex == getEndOfHeaderIndex(collected)
        parsed == IPPMessage(Slice(collected, 0, EOHindex))
    IN  IF EOHindex < 0 THEN [st EXCEPT !.collector = << collected >>]
        ELSE IF parsed.ok
        THEN pushIfAny(emitMessage([st EXCEPT !.message = << parsed.msg >>,
                                              !.collector = << >>], parsed.msg),
                       Slice(collected, EOHindex, Len(collected)))
        ELSE emitError([st EXCEPT !.collector = << collected >>], parsed.err)

\* _write without the test of this._error
write_ignoringError(st, chunk) ==
    onDone(IF st.message = << >> THEN collect(called(st), chunk)
                                 ELSE pushIfAny(called(st), chunk),
           "null")

\* _write returning at once, without its callback, after an error
write_silentAfterError(st, chunk) ==
    IF st.error # "" THEN called(st)
    ELSE onDone(IF st.message = << >> THEN collect(called(st), chunk)
                                      ELSE pushIfAny(called(st), chunk),
                "null")

write(st, chunk) ==
    \* IPPMessageStreamParser.prototype._write
    onDone(IF st.error # "" THEN called(st)
           ELSE IF st.message = << >> THEN collect(called(st), chunk)
           ELSE pushIfAny(called(st), chunk),
           "null")

\* a finish listener that ends the readable side whatever was parsed
onFinish_alwaysEnd(st) ==
    [st EXCEPT !.metEof = TRUE, !.log = Append(@, "end")]

onFinish(st) ==
    \* the "finish" listener of the constructor
    IF st.message = << >>
    THEN emitError(st, "premature end of IPP message")
    ELSE [st EXCEPT !.metEof = TRUE, !.log = Append(@, "end")]

(***************************************************************************)
(* Generator helpers (lib/generate.js).                                    *)
(***************************************************************************)
MAX == 2147483647
MIN == -2147483647 - 1

Generated(value) == [ok |-> TRUE, err |-> "", value |-> value]
GenerateError(text) == [ok |-> FALSE, err |-> text, value |-> NoValue]

IsAscii(string) == \A i \in 1..Len(string) : string[i] <= 127

generateAsciiString(type, string) ==
    IF ~IsAscii(string) THEN GenerateError("invalid string")
    ELSE Generated(NativeString(type, string))

generateDefault == Generated(TypeDefault)
generateUnknown == Generated(TypeUnknown)
generateNoValue == Generated(TypeNoValue)

generateInteger(intValue) ==
    IF intValue < MIN \/ intValue > MAX THEN GenerateError("invalid integer value")
    ELSE Generated(NativeNumber(TagInteger, intValue))

generateBoolean(boolValue) == Generated(NativeBoolean(TagBoolean, boolValue))

\* the first argument of generateEnum: a number, or a label that is no number
EnumNumber(n) == [kind |-> "number", n |-> n, label |-> ""]
EnumLabel(label) == [kind |-> "label", n |-> 0, label |-> label]

generateEnum(value, setOfValues) ==
    \* setOfValues is << >> when the argument is no array, else << list >>
    IF value.kind = "number" /\ value.n > 1 /\ value.n < MAX
    THEN Generated(NativeNumber(TagEnum, value.n))
    ELSE IF setOfValues # << >>
    THEN IF IndexOf(setOfValues[1], value, 1) - 1 < 0
         THEN GenerateError("invalid enum value")
         ELSE Generated(NativeNumber(TagEnum, IndexOf(setOfValues[1], value, 1) - 1))
    ELSE GenerateError("invalid set of enum values")

generateOctetString(dataBuffer) == Generated(NativeBuffer(TagOctetString, dataBuffer))

generateResolution(resolutionX, resolutionY, unit) ==
    IF resolutionX < 0 \/ resolutionY < 0 THEN GenerateError("invalid resolution values")
    ELSE IF unit # PER_INCH /\ unit # PER_CM THEN GenerateError("unsupported resolution unit")
    ELSE Generated(TypeResolution(resolutionX, resolutionY, unit))

generateRangeOfInteger(min, max) == Generated(TypeRange(Min(min, max), Max(min, max)))

\* an argument that is a string (of these character codes) or of another type
JsString(chars) == [isString |-> TRUE, chars |-> chars]
NotAString == [isString |-> FALSE, chars |-> << >>]

\* white space and line terminators String.prototype.trim removes (below U+0100)
WhiteSpace == { 9, 10, 11, 12, 13, 32, 160 }

Trim(string) ==
    LET kept == { i \in 1..Len(string) : string[i] \notin WhiteSpace }
    IN  IF kept = { } THEN << >>
        ELSE SubSeq(string, CHOOSE i \in kept : \A k \in kept : i <= k,
                            CHOOSE i \in kept : \A k \in kept : i >= k)

\* generateTextWithLanguage refusing an empty text as well
generateTextWithLanguage_refusingEmptyText(text, language) ==
    IF ~text.isString \/ ~language.isString \/ Len(Trim(language.chars)) = 0
       \/ Len(text.chars) = 0
    THEN GenerateError("invalid pair of strings")
    ELSE Generated(TypeStringWithLanguage(TagTextWithLanguage, text.chars, language.chars))

generateTextWithLanguage(text, language) ==
    IF ~text.isString \/ ~language.isString \/ Len(Trim(language.chars)) = 0
    THEN GenerateError("invalid pair of strings")
    ELSE Generated(TypeStringWithLanguage(TagTextWithLanguage, text.chars, language.chars))

generateNameWithLanguage(name, language) ==
    IF ~name.isString \/ ~language.isString \/ Len(Trim(language.chars)) = 0
    THEN GenerateError("invalid pair of strings")
    ELSE Generated(TypeStringWithLanguage(TagNameWithLanguage, name.chars, language.chars))

generateTextWithoutLanguage(text) == Generated(NativeString(TagTextWithoutLanguage, text))
generateKeyword(keyword) == generateAsciiString(TagKeyword, keyword)
generateCharset(charset) == generateAsciiString(TagCharset, charset)
generateNaturalLanguage(string) == generateAsciiString(TagNaturalLanguage, string)

(***************************************************************************)
(* IPPMessage.prototype.deriveResponse (lib/message.js).                   *)
(***************************************************************************)
successfulOk == 0

\* "attributes-charset", "attributes-natural-language", "utf-8", "en-us"
AttributesCharset ==
    << 97, 116, 116, 114, 105, 98, 117, 116, 101, 115, 45, 99, 104, 97, 114, 115, 101, 116 >>
AttributesNaturalLanguage ==
    << 97, 116, 116, 114, 105, 98, 117, 116, 101, 115, 45, 110, 97, 116, 117, 114, 97, 108,
       45, 108, 97, 110, 103, 117, 97, 103, 101 >>
Utf8 == << 117, 116, 102, 45, 56 >>
EnUs == << 101, 110, 45, 117, 115 >>

Derived(response, this) == [ok |-> TRUE, err |-> "", value |-> response, this |-> this]
DeriveError(text, this) == [ok |-> FALSE, err |-> text, value |-> EmptyMessage, this |-> this]

\* the argument of deriveResponse: left out, a number, or something isNaN() refuses
NoStatusCode == [kind |-> "omitted", n |-> 0]
StatusCode(n) == [kind |-> "number", n |-> n]
NaNStatusCode == [kind |-> "NaN", n |-> 0]

\* a response that keeps the groups of the request
deriveResponse_keepingGroups(this, statusCode) ==
    Derived([this EXCEPT !.code = << statusCode.n >>], this)

deriveResponse(this, statusCode) ==
    \* an attribute set to one value is compiled like a list of one value
    IF statusCode.kind = "NaN"
    THEN DeriveError("invalid IPP status code", this)
    ELSE Derived([EmptyMessage EXCEPT
                     !.version = this.version,
                     !.code = IF statusCode.kind = "omitted" THEN << successfulOk >>
                                                             ELSE << statusCode.n >>,
                     !.id = this.id,
                     !.attributes["operation"] =
                         << [name |-> AttributesCharset,
                             values |-> << generateCharset(Utf8).value >>],
                            [name |-> AttributesNaturalLanguage,
                             values |-> << generateNaturalLanguage(EnUs).value >>] >>],
                 this)

(***************************************************************************)
(* Inputs: wire messages built after the format of RFC 2910, message       *)
(* objects built with the generators.                                      *)
(***************************************************************************)
Rec(tag, name, value) ==
    << tag >> \o writeInt16BE(Len(name)) \o name \o writeInt16BE(Len(value)) \o value

NameA == << 97 >>
NameB == << 98 >>

\* version 1.1, Get-Printer-Attributes, request-id 1
Header11 == << 1, 1, 0, 11, 0, 0, 0, 1 >>

\* one attribute per value kind the decoder accepts, on the wire
AcceptedRecords ==
    { Rec(TagInteger, NameA, << 0, 0, 0, 5 >>),
      Rec(TagInteger, NameA, << 255, 255, 255, 254 >>),
      Rec(TagEnum, NameA, << 0, 0, 0, 3 >>),
      Rec(TagBoolean, NameA, << 1 >>),
      Rec(TagKeyword, NameA, << 117, 116, 102 >>),
      Rec(TagTextWithoutLanguage, NameA, << 195, 164 >>),
      Rec(TagOctetString, NameA, << 1, 2 >>),
      Rec(TagResolution, NameA, << 0, 0, 1, 44, 0, 0, 1, 44, 3 >>),
      Rec(TagRangeOfInteger, NameA, << 0, 0, 0, 1, 0, 0, 0, 9 >>),
      Rec(TagNoValue, NameA, << >>),
      Rec(TagKeyword, NameA, << 120 >>) \o Rec(TagKeyword, << >>, << 121 >>),
      Rec(TagKeyword, NameA, << 120 >>) \o Rec(TagInteger, NameB, << 0, 0, 0, 7 >>) }

\* attributes of the kinds the decoder has no working function for
RefusedRecords ==
    { Rec(TagUnsupported, NameA, << >>),
      Rec(TagTextWithLanguage, NameA, << 0, 2, 101, 110, 0, 1, 120 >>) }

WireRecords == AcceptedRecords \cup RefusedRecords

Bodies == { << >>, << 255, 254, 253 >> }

\* header and attribute groups, in the order operation, job, printer, unsupported
HeaderParts ==
    { Header11 }
    \cup { Header11 \o << g >> \o r : g \in GroupTags, r \in WireRecords }
    \cup { Header11 \o << 1 >> \o Rec(TagCharset, NameA, << 117 >>)
                    \o << 2 >> \o Rec(TagInteger, NameB, << 0, 0, 0, 5 >>)
                    \o << 4 >> \o Rec(TagBoolean, NameA, << 0 >>) }

WellFormed == { h \o << EndTag >> \o b : h \in HeaderParts, b \in Bodies }

\* a well-formed message cut before its end marker
TruncatedInputs == UNION { { SubSeq(h, 1, n) : n \in 8..Len(h) } : h \in HeaderParts }

ShortInputs == { SubSeq(Header11, 1, n) : n \in 0..7 }

\* valid messages whose groups come in another order than operation, job, printer,
\* unsupported
OutOfOrder ==
    { Header11 \o << g >> \o Rec(TagInteger, NameA, << 0, 0, 0, 5 >>)
               \o << h >> \o Rec(TagKeyword, NameB, << 120 >>) \o << EndTag >> :
        g \in { 2, 4, 5 }, h \in { 1, 2, 4 } }

WireInputs == WellFormed \cup TruncatedInputs \cup ShortInputs \cup OutOfOrder

Attr(name, values) == [name |-> name, values |-> values]

\* values as the generators return them
GeneratedValues ==
    { generateInteger(5).value, generateInteger(-2).value, generateBoolean(TRUE).value,
      generateEnum(EnumNumber(3), << >>).value, generateKeyword(<< 117, 116, 102 >>).value,
      generateTextWithoutLanguage(<< 228 >>).value, generateOctetString(<< 1, 2 >>).value,
      generateResolution(300, 300, PER_INCH).value, generateRangeOfInteger(9, 1).value,
      generateNoValue.value, generateDefault.value, generateUnknown.value,
      generateTextWithLanguage(JsString(<< 120 >>), JsString(<< 101, 110 >>)).value }

Request == [EmptyMessage EXCEPT !.code = << 11 >>, !.id = << 1 >>]

\* one attribute with one value, in any group, with and without data
SingleValueModels ==
    { [Request EXCEPT !.attributes[g] = << Attr(NameA, << v >>) >>, !.data = d] :
        g \in GroupNames, v \in GeneratedValues, d \in { << >>, << << 255, 254 >> >> } }

\* one attribute with two or three values
MultiValueModels ==
    { [Request EXCEPT !.attributes["operation"] = << Attr(NameA, << v, w >>) >>] :
        v \in GeneratedValues, w \in GeneratedValues }
    \cup { [Request EXCEPT !.attributes["job"] =
                << Attr(NameA, << v, generateInteger(5).value, v >>) >>] :
             v \in GeneratedValues }

\* every group filled, the attributes put in either order
MultiGroupModels ==
    { [Request EXCEPT !.attributes = [g \in GroupNames |-> pool], !.data = d] :
        pool \in { << Attr(NameA, << generateInteger(5).value >>),
                      Attr(NameB, << generateKeyword(<< 120 >>).value >>) >>,
                   << Attr(NameB, << generateKeyword(<< 120 >>).value >>),
                      Attr(NameA, << generateInteger(5).value >>) >> },
        d \in { << >>, << << 255, 254 >> >> } }
    \cup { [Request EXCEPT !.attributes["printer"] = << Attr(NameA, << v >>) >>,
                           !.attributes["job"] = << Attr(NameB, << v >>) >>] :
             v \in GeneratedValues }

Models == SingleValueModels \cup MultiValueModels \cup MultiGroupModels

\* an octetString of 768 octets: its value-length is written 03 00
LongMessage ==
    Header11 \o << 1 >> \o Rec(TagOctetString, NameA, [i \in 1..768 |-> 65]) \o << EndTag >>

\* well-formed messages the one-shot decoder accepts
StreamWellFormed ==
    { Header11 \o << 1 >> \o r \o << EndTag >> \o b : r \in AcceptedRecords, b \in Bodies }
    \cup { Header11 \o << EndTag >> \o b : b \in Bodies }
    \cup { LongMessage }

\* messages the one-shot decoder refuses
StreamRefused ==
    { Header11 \o << 1 >> \o r \o << EndTag >> \o b : r \in RefusedRecords, b \in Bodies }
    \cup { Header11 \o << 6, EndTag >> \o b : b \in Bodies }

StreamInputs == StreamWellFormed \cup StreamRefused

(***************************************************************************)
(* Codec scenarios: parse( raw ) then toBuffer(), and toBuffer() of a      *)
(* message object then parse().                                            *)
(***************************************************************************)
NotDecoded == Failure("not decoded", "", FALSE)
NotEncoded == CompileError("not encoded")
NoCall == [fn |-> "none", args |-> << >>]
NoOutcome == [ok |-> FALSE, err |-> "not called"]

InitCodec ==
    /\ \/ pc = "wire" /\ raw \in WireInputs /\ model = EmptyMessage
       \/ pc = "model" /\ raw = << >> /\ model \in Models
    /\ decoded = NotDecoded
    /\ encoded = NotEncoded
    /\ whole = << >> /\ source = << >> /\ parser = NewParser
    /\ call = NoCall /\ outcome = NoOutcome

Parse ==
    /\ pc = "wire"
    /\ decoded' = IPPMessage(raw)
    /\ pc' = "parsed"
    /\ UNCHANGED << raw, model, encoded, streamVars, callVars >>

Encode ==
    /\ pc = "parsed" /\ decoded.ok
    /\ encoded' = toBuffer(decoded.msg)
    /\ pc' = "encoded"
    /\ UNCHANGED << raw, model, decoded, streamVars, callVars >>

Compile ==
    /\ pc = "model"
    /\ encoded' = toBuffer(model)
    /\ pc' = "compiled"
    /\ UNCHANGED << raw, model, decoded, streamVars, callVars >>

Reparse ==
    /\ pc = "compiled" /\ encoded.ok
    /\ decoded' = IPPMessage(encoded.buf)
    /\ pc' = "reparsed"
    /\ UNCHANGED << raw, model, encoded, streamVars, callVars >>

NextCodec == Parse \/ Encode \/ Compile \/ Reparse

SpecCodec == InitCodec /\ [][NextCodec]_vars

(***************************************************************************)
(* Stream scenario: the source writes its octets in chunks of any sizes    *)
(* and ends the writable side at any time.                                 *)
(***************************************************************************)
InitStream ==
    /\ pc = "writing"
    /\ whole \in StreamInputs
    /\ source = whole
    /\ parser = NewParser
    /\ raw = << >> /\ model = EmptyMessage /\ decoded = NotDecoded /\ encoded = NotEncoded
    /\ call = NoCall /\ outcome = NoOutcome

ChunkSizes == (1..MaxChunk) \cup { Len(source) }

Write ==
    \* the next chunk is written once the callback of the write before was called
    /\ pc = "writing"
    /\ idle(parser)
    /\ \E k \in ChunkSizes :
         /\ k >= 1 /\ k <= Len(source)
         /\ parser' = write(parser, SubSeq(source, 1, k))
         /\ source' = SubSeq(source, k + 1, Len(source))
    /\ UNCHANGED << pc, whole, codecVars, callVars >>

Finish ==
    \* "finish" is emitted once no write is waiting for its callback
    /\ pc = "writing"
    /\ idle(parser)
    /\ parser' = onFinish(parser)
    /\ pc' = "finished"
    /\ UNCHANGED << whole, source, codecVars, callVars >>

NextStream == Write \/ Finish

SpecStream == InitStream /\ [][NextStream]_vars

\* the source ends the writable side at last: "finish" is emitted once end() was
\* called and no write is waiting for its callback
SpecStreamLive == SpecStream /\ WF_vars(Finish)

written == SubSeq(whole, 1, Len(whole) - Len(source))

(***************************************************************************)
(* Middleware scenario: a request of content type application/ipp is piped *)
(* into a new stream parser; the listeners of the middleware call next.    *)
(***************************************************************************)
\* requests: messages the decoder accepts or refuses, whole or ended too early
MiddlewareRequests ==
    StreamInputs
    \cup { << >>, SubSeq(Header11, 1, 5), Header11, Header11 \o << 1 >>,
           Header11 \o << 1 >> \o Rec(TagKeyword, NameA, << 120, 121 >>),
           Header11 \o << 1, 68, 0, 1, 97, 0 >> }

\* a source that goes on writing after the parser has emitted "error"
piped_afterError(st) == TRUE

piped(st) ==
    \* req.pipe( streamParser ): the source is unpiped when the parser emits "error"
    st.error = ""

IsNextEvent(e) == e \in { "message", "error" }

nextCalls(st) ==
    \* the calls of next made by the listeners of "message" and of "error"
    LET events == SelectSeq(st.log, IsNextEvent)
    IN  [i \in 1..Len(events) |-> IF events[i] = "message" THEN "next()" ELSE "next(error)"]

InitMiddleware ==
    /\ pc = "piping"
    /\ whole \in MiddlewareRequests
    /\ source = whole
    /\ parser = NewParser
    /\ raw = << >> /\ model = EmptyMessage /\ decoded = NotDecoded /\ encoded = NotEncoded
    /\ call = NoCall /\ outcome = NoOutcome

PipeData ==
    \* a chunk of the request is written to the parser
    /\ pc = "piping"
    /\ piped(parser) /\ idle(parser)
    /\ \E k \in ChunkSizes :
         /\ k >= 1 /\ k <= Len(source)
         /\ parser' = write(parser, SubSeq(source, 1, k))
         /\ source' = SubSeq(source, k + 1, Len(source))
    /\ UNCHANGED << pc, whole, codecVars, callVars >>

PipeEnd ==
    \* the request has ended: the writable side of the parser is ended and finishes
    /\ pc = "piping"
    /\ piped(parser) /\ idle(parser)
    /\ source = << >>
    /\ parser' = onFinish(parser)
    /\ pc' = "ended"
    /\ UNCHANGED << whole, source, codecVars, callVars >>

NextMiddleware == PipeData \/ PipeEnd

SpecMiddleware == InitMiddleware /\ [][NextMiddleware]_vars

(***************************************************************************)
(* Library calls: one function of the library called once with arguments   *)
(* taken from CallInputs.                                                  *)
(***************************************************************************)
Call(fn, args) == [fn |-> fn, args |-> args]

\* values of every kind, as the generators and the decoders build them
CallValues ==
    GeneratedValues
    \cup { generateOctetString(<< >>).value, generateOctetString(<< 0, 0 >>).value,
           generateKeyword(<< >>).value, generateTextWithoutLanguage(<< 228, 98 >>).value,
           generateInteger(MAX).value, generateInteger(MIN).value,
           generateBoolean(FALSE).value, generateResolution(600, 1200, PER_CM).value,
           generateRangeOfInteger(MIN, MAX).value, generateRangeOfInteger(-1, -1).value,
           generateNameWithLanguage(JsString(<< 120, 121 >>), JsString(<< 100, 101 >>)).value }

ToBufferCalls == { Call("toBuffer", << v >>) : v \in CallValues }

CallToBuffer ==
    \* value.toBuffer()
    /\ pc = "calling" /\ call.fn = "toBuffer"
    /\ outcome' = ValueToBuffer(call.args[1])
    /\ pc' = "returned"
    /\ UNCHANGED << call, codecVars, streamVars >>

\* requests of several versions and ids, with and without attributes
DeriveRequests ==
    { [m EXCEPT !.version = v, !.id = i] :
        m \in MultiGroupModels \cup { Request },
        v \in { << 1, 1 >>, << 2, 0 >> }, i \in { << 1 >>, << 77 >> } }

StatusCodes == { NoStatusCode, StatusCode(0), StatusCode(1030), NaNStatusCode }

DeriveResponseCalls ==
    { Call("deriveResponse", << m, c >>) : m \in DeriveRequests, c \in StatusCodes }

CallDeriveResponse ==
    \* request.deriveResponse( statusCode )
    /\ pc = "calling" /\ call.fn = "deriveResponse"
    /\ outcome' = deriveResponse(call.args[1], call.args[2])
    /\ pc' = "returned"
    /\ UNCHANGED << call, codecVars, streamVars >>

RangeLimits == { MIN, -1, 0, 1, 9, MAX }

RangeCalls ==
    { Call(fn, << a, b >>) :
        fn \in { "generateRangeOfInteger", "decodeRange" }, a \in RangeLimits, b \in RangeLimits }

CallGenerateRangeOfInteger ==
    /\ pc = "calling" /\ call.fn = "generateRangeOfInteger"
    /\ outcome' = generateRangeOfInteger(call.args[1], call.args[2])
    /\ pc' = "returned"
    /\ UNCHANGED << call, codecVars, streamVars >>

CallDecodeRange ==
    \* decoders[0x33] on a payload of the two integers
    /\ pc = "calling" /\ call.fn = "decodeRange"
    /\ outcome' = decoders(writeInt32BE(call.args[1]) \o writeInt32BE(call.args[2]), 0, 8,
                           TagRangeOfInteger)
    /\ pc' = "returned"
    /\ UNCHANGED << call, codecVars, streamVars >>

VersionOctets == { 0, 1, 2, 127, 128, 255 }

\* messages of every version, and empty messages whose first two octets are a, b
VersionCalls ==
    { Call("message.toBuffer", << [Request EXCEPT !.version = << a, b >>] >>) :
        a \in VersionOctets, b \in VersionOctets }
    \cup { Call("parse", << << a, b, 0, 11, 0, 0, 0, 1, EndTag >> >>) :
             a \in VersionOctets, b \in VersionOctets }

CallMessageToBuffer ==
    \* message.toBuffer()
    /\ pc = "calling" /\ call.fn = "message.toBuffer"
    /\ outcome' = toBuffer(call.args[1])
    /\ pc' = "returned"
    /\ UNCHANGED << call, codecVars, streamVars >>

CallParse ==
    \* parse( rawMessage )
    /\ pc = "calling" /\ call.fn = "parse"
    /\ outcome' = IPPMessage(call.args[1])
    /\ pc' = "returned"
    /\ UNCHANGED << call, codecVars, streamVars >>

PrinterStates == << EnumLabel("idle"), EnumLabel("processing"), EnumLabel("stopped") >>

EnumArguments ==
    { EnumNumber(n) : n \in { -1, 0, 1, 2, 3, MAX - 1, MAX } }
    \cup { EnumLabel(l) : l \in { "idle", "processing", "stopped", "unknown" } }

EnumSets == { << >>, << PrinterStates >>, << << EnumNumber(0), EnumNumber(1), EnumNumber(MAX) >> >> }

EnumCalls == { Call("generateEnum", << v, set >>) : v \in EnumArguments, set \in EnumSets }

CallGenerateEnum ==
    /\ pc = "calling" /\ call.fn = "generateEnum"
    /\ outcome' = generateEnum(call.args[1], call.args[2])
    /\ pc' = "returned"
    /\ UNCHANGED << call, codecVars, streamVars >>

StringArguments ==
    { NotAString } \cup { JsString(c) : c \in { << >>, << 32 >>, << 9, 32 >>, << 120 >>,
                                                 << 32, 101, 110, 32 >>, << 101, 110 >> } }

WithLanguageCalls ==
    { Call(fn, << t, l >>) :
        fn \in { "generateTextWithLanguage", "generateNameWithLanguage" },
        t \in StringArguments, l \in StringArguments }

CallGenerateTextWithLanguage ==
    /\ pc = "calling" /\ call.fn = "generateTextWithLanguage"
    /\ outcome' = generateTextWithLanguage(call.args[1], call.args[2])
    /\ pc' = "returned"
    /\ UNCHANGED << call, codecVars, streamVars >>

CallGenerateNameWithLanguage ==
    /\ pc = "calling" /\ call.fn = "generateNameWithLanguage"
    /\ outcome' = generateNameWithLanguage(call.args[1], call.args[2])
    /\ pc' = "returned"
    /\ UNCHANGED << call, codecVars, streamVars >>

OutOfBandTags == { TagUnsupported, TagDefault, TagUnknown, TagNoValue }

\* a message with one out-of-band value of tag t in group g
OutOfBandMessage(g, t, body) == Header11 \o << g >> \o Rec(t, NameA, << >>) \o << EndTag >> \o body

OutOfBandInputs ==
    { OutOfBandMessage(g, t, b) : g \in GroupTags, t \in OutOfBandTags, b \in Bodies }

NegativeLengths == { << 255, 255 >>, << 255, 253 >>, << 128, 0 >>, << 255, 250 >> }

\* a record with the name-length field n and the value-length field v as given
RawRec(tag, n, name, v, value) == << tag >> \o n \o name \o v \o value

\* records whose name-length or value-length is negative
NegativeLengthInputs ==
    { Header11 \o << 1 >> \o RawRec(tag, n, << >>, << 0, 1 >>, << 120 >>) \o << EndTag >> :
        tag \in { TagKeyword, TagInteger }, n \in NegativeLengths }
    \cup { Header11 \o << 1 >> \o RawRec(tag, << 0, 1 >>, name, v, value) \o tail :
             tag \in { TagKeyword, TagOctetString, TagInteger, TagTextWithoutLanguage },
             name \in { << 97 >>, << 3 >> }, v \in NegativeLengths,
             value \in { << >>, << 120 >> }, tail \in { << >>, << EndTag >> } }

\* a record with name-length 0 first in its group, alone or after another group
ContinuationFirst(before, g, tag, value) ==
    Header11 \o before \o << g >> \o Rec(tag, << >>, value) \o << EndTag >>

GroupsBefore ==
    { << >>, << 1 >> \o Rec(TagKeyword, NameA, << 120 >>),
      << 2 >> \o Rec(TagKeyword, NameA, << 120 >>) \o Rec(TagKeyword, << >>, << 121 >>) }

ContinuationFirstInputs ==
    { ContinuationFirst(before, g, TagKeyword, << 121 >>) : before \in GroupsBefore, g \in GroupTags }
    \cup { ContinuationFirst(before, g, TagInteger, << 0, 0, 0, 7 >>) :
             before \in GroupsBefore, g \in GroupTags }

ProbedTags == (0..16) \cup { 68, 127, 128, 255 }

\* the octet t where a group tag is expected, first or after a group
GroupProbe(before, t) ==
    Header11 \o before \o << t >> \o Rec(TagKeyword, NameA, << 120 >>) \o << EndTag, 255 >>

GroupProbeInputs ==
    { GroupProbe(<< >>, t) : t \in ProbedTags }
    \cup { GroupProbe(<< 1 >> \o Rec(TagInteger, NameB, << 0, 0, 0, 5 >>), t) : t \in 0..15 }

\* types named by the four octets of an extended value, and the octets after them
ExtendedTypes ==
    { TagUnsupported, TagNoValue, TagInteger, TagBoolean, TagOctetString, TagRangeOfInteger,
      TagKeyword, TagTextWithoutLanguage, 126 }

ExtendedPayloads ==
    { << >>, << 1 >>, << 120, 121 >>, << 0, 0, 0, 5 >>, << 0, 0, 0, 1, 0, 0, 0, 9 >> }

\* what follows the record: the end marker, another attribute, or another value
AfterRecord ==
    { << EndTag >>, Rec(TagKeyword, NameB, << 122 >>) \o << EndTag, 255 >>,
      Rec(TagInteger, << >>, << 0, 0, 0, 7 >>) \o << 2 >> \o Rec(TagBoolean, NameB, << 1 >>)
          \o << EndTag >> }

\* a record of tag 0x7f whose value is the type T, four octets, and the octets P
ExtendedMessage(T, P, tail) ==
    Header11 \o << 1 >>
    \o RawRec(TagExtension, << 0, 1 >>, NameA, writeInt16BE(4 + Len(P)), writeInt32BE(T) \o P)
    \o tail

\* the record of tag T with the value P
BaseMessage(T, P, tail) == Header11 \o << 1 >> \o Rec(T, NameA, P) \o tail

\* a record of tag 0x7f with fewer than four octets of value
ShortExtendedMessage(V, tail) == Header11 \o << 1 >> \o Rec(TagExtension, NameA, V) \o tail

ShortExtendedValues == { << >>, << 0 >>, << 0, 0 >>, << 0, 0, 33 >> }

ExtendedInputs ==
    { ExtendedMessage(T, P, tail) : T \in ExtendedTypes, P \in ExtendedPayloads, tail \in AfterRecord }
    \cup { ShortExtendedMessage(V, tail) : V \in ShortExtendedValues, tail \in AfterRecord }

\* the result of _getEndOfHeaderIndex
Index(n) == [ok |-> TRUE, err |-> "", index |-> n]

\* buffers whose octet at offset 8, where the scan expects a group tag, is t
ScanProbeInputs == { GroupProbe(<< >>, t) : t \in ProbedTags }

\* headers of well-formed messages, through the end marker
ScanHeaders ==
    { Header11 \o << EndTag >>, LongMessage,
      Header11 \o << 1 >> \o Rec(TagCharset, NameA, << 117 >>)
               \o << 2 >> \o Rec(TagInteger, NameB, << 0, 0, 0, 5 >>)
               \o Rec(TagInteger, << >>, << 0, 0, 0, 3 >>) \o << EndTag >> }
    \cup { Header11 \o << g >> \o r \o << EndTag >> : g \in { 1, 5 }, r \in AcceptedRecords }

\* the prefixes of a message that are scanned: the short ones and the whole message
MaxPrefix == 40

PrefixLengths(B) == { n \in 0..Len(B) : n <= MaxPrefix \/ n = Len(B) }

ScanPrefixInputs ==
    UNION { { SubSeq(h \o b, 1, n) : n \in PrefixLengths(h \o b) } :
            h \in ScanHeaders, b \in Bodies }

ScanCalls ==
    { Call("getEndOfHeaderIndex", << B >>) : B \in ScanProbeInputs \cup ScanPrefixInputs }

CallGetEndOfHeaderIndex ==
    \* _getEndOfHeaderIndex( buffer )
    /\ pc = "calling" /\ call.fn = "getEndOfHeaderIndex"
    /\ outcome' = Index(getEndOfHeaderIndex(call.args[1]))
    /\ pc' = "returned"
    /\ UNCHANGED << call, codecVars, streamVars >>

NameC == << 99 >>

\* the groups between the two occurrences of a group: none, or one of any tag
GroupsBetween == { << >> } \cup { << h >> \o Rec(TagInteger, NameB, << 0, 0, 0, 5 >>) : h \in GroupTags }

\* a message in which the group g occurs twice, both times with values of the
\* attribute a, the second time with the attribute c as well
RepeatedGroup(g, between) ==
    Header11
    \o << g >> \o Rec(TagKeyword, NameA, << 119 >>) \o Rec(TagKeyword, << >>, << 120 >>)
    \o between
    \o << g >> \o Rec(TagKeyword, NameA, << 121 >>) \o Rec(TagKeyword, << >>, << 122 >>)
               \o Rec(TagBoolean, NameC, << 1 >>)
    \o << EndTag >>

RepeatedGroupInputs == { RepeatedGroup(g, between) : g \in GroupTags, between \in GroupsBetween }

ParseCalls ==
    { Call("parse", << B >>) :
        B \in OutOfBandInputs \cup NegativeLengthInputs \cup ContinuationFirstInputs
              \cup GroupProbeInputs \cup ExtendedInputs \cup RepeatedGroupInputs }

CallInputs ==
    ToBufferCalls \cup DeriveResponseCalls \cup RangeCalls \cup VersionCalls \cup EnumCalls
    \cup WithLanguageCalls \cup ParseCalls \cup ScanCalls

InitCalls ==
    /\ pc = "calling"
    /\ call \in CallInputs
    /\ outcome = NoOutcome
    /\ raw = << >> /\ model = EmptyMessage /\ decoded = NotDecoded /\ encoded = NotEncoded
    /\ whole = << >> /\ source = << >> /\ parser = NewParser

NextCalls ==
    \/ CallToBuffer
    \/ CallDeriveResponse
    \/ CallGenerateRangeOfInteger
    \/ CallDecodeRange
    \/ CallMessageToBuffer
    \/ CallParse
    \/ CallGenerateEnum
    \/ CallGenerateTextWithLanguage
    \/ CallGenerateNameWithLanguage
    \/ CallGetEndOfHeaderIndex

SpecCalls == InitCalls /\ [][NextCalls]_vars

(***************************************************************************)
(* Properties of the stream parser, checked under SpecStream.              *)
(***************************************************************************)
\* the octets after the end marker, and those through it, by the one-shot decoder
bodyOf(B) == compileData(IPPMessage(B).msg)
headerOf(B) == SubSeq(B, 1, Len(B) - Len(bodyOf(B)))

Count(log, kind) == Cardinality({ i \in DOMAIN log : log[i] = kind })

\* C1: once every octet of a well-formed message was written, in whatever chunks,
\* the one message delivered is the one-shot decode of the octets through the end
\* marker, the octets pushed are those after the end marker, and no error was
\* emitted.
C1_StreamingEquivalence ==
    (whole \in StreamWellFormed /\ source = << >>) =>
        /\ parser.delivered = << IPPMessage(headerOf(whole)).msg >>
        /\ parser.pushed = bodyOf(whole)
        /\ Count(parser.log, "error") = 0

\* C2: the "message" event is emitted at most once, and exactly once as soon as the
\* octets written hold the complete header of a well-formed message; no octet is
\* pushed before it; the octets pushed are those written after the header, in the
\* order written.
C2_MessageOnceBeforeBody ==
    /\ Count(parser.log, "message") <= 1
    /\ (whole \in StreamWellFormed /\ Len(written) >= Len(headerOf(whole)))
           => Count(parser.log, "message") = 1
    /\ \A i \in DOMAIN parser.log :
           parser.log[i] = "data" => \E j \in 1..(i - 1) : parser.log[j] = "message"
    /\ (whole \in StreamWellFormed /\ Count(parser.log, "message") = 1)
           => parser.pushed = SubSeq(written, Len(headerOf(whole)) + 1, Len(written))

C8_Finish ==
    pc = "finished" =>
        IF parser.message = << >>
        THEN /\ parser.error = "premature end of IPP message"
             /\ parser.log[Len(parser.log)] = "error"
             /\ ~parser.metEof /\ Count(parser.log, "end") = 0
        ELSE /\ parser.metEof /\ parser.log[Len(parser.log)] = "end"
             /\ Count(parser.log, "message") = 1
             /\ Count(parser.log, "error") = 0 /\ parser.error = ""

\* the writable side finished while octets of a header were still being collected
C8_FinishedWhileCollecting ==
    /\ pc = "finished" /\ parser.message = << >>
    /\ parser.collector # << >> /\ Count(parser.log, "error") = 1

(***************************************************************************)
(* Properties of the codec, checked under SpecCodec.                       *)
(***************************************************************************)
\* the message the last toBuffer() was called on
encodedMessage == IF pc \in { "compiled", "reparsed" } THEN model ELSE decoded.msg

RECURSIVE groupsLaidOut(_, _, _)
groupsLaidOut(msg, tags, i) ==
    \* the non-empty groups of msg, each after its tag, in the order of tags
    IF i > Len(tags) THEN << >>
    ELSE LET pool == msg.attributes[ATTRIBUTE_GROUP(tags[i])]
         IN  (IF pool # << >> THEN << tags[i] >> \o compileAttributeGroup(pool, 1).buf
                              ELSE << >>)
             \o groupsLaidOut(msg, tags, i + 1)

laidOut(msg, tags) ==
    compileHeader(msg).buf \o groupsLaidOut(msg, tags, 1) \o << EndTag >> \o compileData(msg)

sameMessage(m, n) ==
    /\ m.version = n.version /\ m.code = n.code /\ m.id = n.id
    /\ m.attributes = n.attributes
    /\ compileData(m) = compileData(n)

\* C3: a valid message with its groups in the order operation, job, printer,
\* unsupported is decoded, and encoding what was decoded gives its octets back.
C3_WireRoundTrip ==
    raw \in WellFormed =>
        /\ pc = "parsed" => decoded.ok
        /\ pc = "encoded" => encoded.ok /\ encoded.buf = raw

\* C4: a message built with the generators is encoded, and decoding the octets
\* gives a message with the same version, code, id, attributes and data.
C4_ModelRoundTrip ==
    /\ pc = "compiled" => encoded.ok
    /\ pc = "reparsed" => decoded.ok /\ sameMessage(decoded.msg, model)

RECURSIVE recordsOf(_, _, _)
recordsOf(name, values, index) ==
    \* one record per value: tag, name (empty after the first), length and payload
    IF index > Len(values) THEN << >>
    ELSE << values[index].type >>
         \o writeInt16BE(IF index = 1 THEN Len(name) ELSE 0)
         \o (IF index = 1 THEN name ELSE << >>)
         \o ValueToBuffer(values[index]).buf
         \o recordsOf(name, values, index + 1)

\* C6: an attribute with k values is encoded as k records one after the other, the
\* first with the name and the others with name-length 0, and decoding them gives
\* one attribute holding the k values in their order.
C6_Continuation ==
    model \in MultiValueModels =>
        /\ pc = "compiled" =>
               /\ encoded.ok
               /\ \E g \in GroupNames :
                      /\ Len(model.attributes[g]) = 1
                      /\ \E tag \in GroupTags :
                             /\ ATTRIBUTE_GROUP(tag) = g
                             /\ encoded.buf = compileHeader(model).buf \o << tag >>
                                    \o recordsOf(model.attributes[g][1].name,
                                                 model.attributes[g][1].values, 1)
                                    \o << EndTag >>
        /\ pc = "reparsed" => decoded.ok /\ decoded.msg.attributes = model.attributes

\* C9: decoding 0 to 7 octets throws and gives no message.
C9_ShortInputFails ==
    (pc = "parsed" /\ raw \in ShortInputs) =>
        ~decoded.ok /\ decoded.err = "missing required information in message"

\* the errors thrown for meeting the end of the buffer
TruncatedErrors ==
    { "missing required information in message", "unexpected EOM",
      "met EOM while reading attribute type",
      "met EOM while reading length of attribute' name",
      "met EOM while reading attribute's name ",
      "met EOM while reading length of attribute's value",
      "met EOM while reading value of attribute",
      "met EOM while reading extended value tag of attribute" }

\* C10: decoding a well-formed message cut anywhere from its 8th octet to just
\* before its end marker throws for having met the end of the buffer, gives no
\* message and reads no octet outside the buffer.
C10_PrefixFails ==
    (pc = "parsed" /\ raw \in TruncatedInputs) =>
        ~decoded.ok /\ decoded.err \in TruncatedErrors /\ ~decoded.oob

(***************************************************************************)
(* Properties of single library calls, checked under SpecCalls.            *)
(***************************************************************************)
OutOfBandClasses == { "TypeDefault", "TypeUnknown", "TypeNoValue" }

\* C11: toBuffer() of a value of any kind returns a 16-bit big-endian length L
\* followed by exactly L octets, and the two octets 00 00 for the out-of-band kinds.
C11_LengthPrefixedPayload ==
    (pc = "returned" /\ call.fn = "toBuffer") =>
        /\ outcome.ok
        /\ Len(outcome.buf) >= 2
        /\ readInt16BE(outcome.buf, 0) = Len(outcome.buf) - 2
        /\ call.args[1].cls \in OutOfBandClasses => outcome.buf = << 0, 0 >>

\* C12: deriveResponse(statusCode) returns a new message with the version and id of
\* the request, the code statusCode (0 when omitted), attributes-charset = "utf-8"
\* and attributes-natural-language = "en-us" in the operation group and nothing in
\* the other groups; the request is as it was.
C12_DeriveResponse ==
    (pc = "returned" /\ call.fn = "deriveResponse" /\ call.args[2].kind # "NaN") =>
        /\ outcome.ok
        /\ outcome.value.version = call.args[1].version
        /\ outcome.value.id = call.args[1].id
        /\ outcome.value.code = IF call.args[2].kind = "omitted" THEN << 0 >>
                                                                 ELSE << call.args[2].n >>
        /\ outcome.value.attributes["operation"] =
               << Attr(AttributesCharset, << NativeString(TagCharset, Utf8) >>),
                  Attr(AttributesNaturalLanguage, << NativeString(TagNaturalLanguage, EnUs) >>) >>
        /\ \A g \in GroupNames \ { "operation" } : outcome.value.attributes[g] = << >>
        /\ outcome.this = call.args[1]

\* a response was derived, without a status code, from a version 2.0 request that
\* holds attributes in every group
C12_DerivedFromFilledRequest ==
    /\ pc = "returned" /\ call.fn = "deriveResponse" /\ outcome.ok
    /\ call.args[2].kind = "omitted"
    /\ call.args[1].version = << 2, 0 >>
    /\ \A g \in GroupNames : call.args[1].attributes[g] # << >>

\* C13: the range generateRangeOfInteger(a, b) returns, and the range decoded from
\* the payload (a, b), has the smaller of a and b as lower limit and the greater as
\* upper limit.
C13_RangeNormalized ==
    (pc = "returned" /\ call.fn \in { "generateRangeOfInteger", "decodeRange" }) =>
        LET a == call.args[1]
            b == call.args[2]
        IN  /\ outcome.ok
            /\ outcome.value.cls = "TypeRange"
            /\ outcome.value.a[1] = (IF a <= b THEN a ELSE b)
            /\ outcome.value.a[2] = (IF a <= b THEN b ELSE a)
            /\ outcome.value.a[1] <= outcome.value.a[2]

\* a payload with the greater integer first was decoded
C13_DecodedSwappedRange ==
    /\ pc = "returned" /\ call.fn = "decodeRange" /\ outcome.ok
    /\ call.args[1] > call.args[2]
    /\ outcome.value.a = << call.args[2], call.args[1] >>

\* C14: a message of version major.minor, major in 1..255 and minor in 0..255, is
\* encoded with the two octets major, minor first, and a message whose first two
\* octets are a, b in 0..255 is decoded with the version a.b.
C14_UnsignedVersion ==
    /\ (pc = "returned" /\ call.fn = "message.toBuffer"
        /\ call.args[1].version[1] \in 1..255 /\ call.args[1].version[2] \in 0..255) =>
           /\ outcome.ok
           /\ SubSeq(outcome.buf, 1, 2) = call.args[1].version
    /\ (pc = "returned" /\ call.fn = "parse"
        /\ Len(call.args[1]) = 9 /\ SubSeq(call.args[1], 3, 9) = << 0, 11, 0, 0, 0, 1, EndTag >>) =>
           /\ outcome.ok
           /\ outcome.msg.version = SubSeq(call.args[1], 1, 2)

\* C15: generateEnum returns an enum value holding the integer for every integer
\* from 2 to 2^31-1; for any other value and an ordered set it returns an enum value
\* holding the index of the value in the set, and throws "invalid enum value" when
\* the value is not in the set.
C15_GenerateEnum ==
    (pc = "returned" /\ call.fn = "generateEnum") =>
        LET value == call.args[1]
            set == call.args[2]
        IN  IF value.kind = "number" /\ value.n >= 2 /\ value.n <= MAX
            THEN outcome.ok /\ outcome.value = NativeNumber(TagEnum, value.n)
            ELSE set # << >> =>
                   IF \E i \in 1..Len(set[1]) : set[1][i] = value
                   THEN /\ outcome.ok
                        /\ outcome.value.type = TagEnum
                        /\ set[1][outcome.value.a[1] + 1] = value
                   ELSE ~outcome.ok /\ outcome.err = "invalid enum value"

WithLanguageTag(fn) ==
    IF fn = "generateTextWithLanguage" THEN TagTextWithLanguage ELSE TagNameWithLanguage

Blank(chars) == \A i \in 1..Len(chars) : chars[i] \in WhiteSpace

\* C16 as the specification states it: the generators of text/nameWithLanguage
\* throw when the string is empty, when the language is empty and when the language
\* is blank; in every other case they return a value of the tag 0x35 / 0x36 holding
\* the string and the language.
C16_EmptyStringRefused ==
    (pc = "returned" /\ call.fn \in { "generateTextWithLanguage", "generateNameWithLanguage" }
     /\ call.args[1].isString /\ call.args[2].isString) =>
        IF Len(call.args[1].chars) = 0 \/ Blank(call.args[2].chars)
        THEN ~outcome.ok
        ELSE /\ outcome.ok
             /\ outcome.value = TypeStringWithLanguage(WithLanguageTag(call.fn),
                                                       call.args[1].chars, call.args[2].chars)

\* C16 as the code has it: the generators of text/nameWithLanguage throw "invalid
\* pair of strings" when an argument is no string and when the language is empty or
\* blank; in every other case, an empty string included, they return a value of the
\* tag 0x35 / 0x36 holding the string and the language as given.
C16_BlankLanguageRefused ==
    (pc = "returned" /\ call.fn \in { "generateTextWithLanguage", "generateNameWithLanguage" }) =>
        IF ~call.args[1].isString \/ ~call.args[2].isString \/ Blank(call.args[2].chars)
        THEN ~outcome.ok /\ outcome.err = "invalid pair of strings"
        ELSE /\ outcome.ok
             /\ outcome.value = TypeStringWithLanguage(WithLanguageTag(call.fn),
                                                       call.args[1].chars, call.args[2].chars)

\* a textWithLanguage value was generated from an empty text
C16_EmptyTextGenerated ==
    /\ pc = "returned" /\ call.fn = "generateTextWithLanguage" /\ outcome.ok
    /\ call.args[1] = JsString(<< >>)
    /\ call.args[2] = JsString(<< 32, 101, 110, 32 >>)

\* C17: a record with one of the out-of-band tags 0x10, 0x11, 0x12, 0x13 and
\* value-length 0 is decoded to a value of that tag without payload.
C17_OutOfBandDecoded ==
    (pc = "returned" /\ call.fn = "parse") =>
        \A g \in GroupTags, t \in OutOfBandTags, b \in Bodies :
            call.args[1] = OutOfBandMessage(g, t, b) =>
                /\ outcome.ok
                /\ Len(outcome.msg.attributes[ATTRIBUTE_GROUP(g)]) = 1
                /\ LET values == outcome.msg.attributes[ATTRIBUTE_GROUP(g)][1].values
                   IN  /\ Len(values) = 1
                       /\ values[1].type = t
                       /\ values[1].a = << >> /\ values[1].s = << >> /\ values[1].l = << >>

\* C18: decoding a message with a record whose name-length or value-length is
\* negative throws and gives no message.
C18_NegativeLengthFails ==
    (pc = "returned" /\ call.fn = "parse" /\ call.args[1] \in NegativeLengthInputs) =>
        ~outcome.ok /\ outcome.err # "attribute loop still running"

\* C19: a record with name-length 0 that is the first of its group makes decoding
\* throw "unexpected additional value", also when an earlier group of the message
\* holds named attributes.
C19_ContinuationFirstFails ==
    (pc = "returned" /\ call.fn = "parse" /\ call.args[1] \in ContinuationFirstInputs) =>
        ~outcome.ok /\ outcome.err = "unexpected additional value"

\* a continuation record was met first in its group after a group with a named
\* attribute
C19_AfterNamedAttribute ==
    /\ pc = "returned" /\ call.fn = "parse" /\ ~outcome.ok
    /\ call.args[1] = ContinuationFirst(<< 1 >> \o Rec(TagKeyword, NameA, << 120 >>), 2,
                                        TagKeyword, << 121 >>)

\* the group a group tag names
GroupOfTag(t) ==
    CASE t = 1 -> "operation" [] t = 2 -> "job" [] t = 4 -> "printer" [] OTHER -> "unsupported"

\* the group that was decoded before the probed octet
ProbedAfter == << 1 >> \o Rec(TagInteger, NameB, << 0, 0, 0, 5 >>)

AttrA == Attr(NameA, << NativeString(TagKeyword, << 120 >>) >>)
AttrB == Attr(NameB, << NativeNumber(TagInteger, 5) >>)

\* C20: where a group tag is expected, first or after a group, 0x03 ends the groups
\* and the octets after it are the data as they are; 0x01, 0x02, 0x04, 0x05 start the
\* attributes of that group; any other octet makes decoding throw "unsupported
\* attribute group type".
C20_GroupTag ==
    (pc = "returned" /\ call.fn = "parse") =>
        /\ \A t \in ProbedTags :
              call.args[1] = GroupProbe(<< >>, t) =>
                IF t = EndTag
                THEN /\ outcome.ok
                     /\ outcome.msg.attributes = EmptyAttributes
                     /\ outcome.msg.data =
                            << Rec(TagKeyword, NameA, << 120 >>) \o << EndTag, 255 >> >>
                ELSE IF t \in { 1, 2, 4, 5 }
                THEN /\ outcome.ok
                     /\ outcome.msg.data = << << 255 >> >>
                     /\ \A g \in GroupNames :
                            outcome.msg.attributes[g] =
                                IF g = GroupOfTag(t) THEN << AttrA >> ELSE << >>
                ELSE ~outcome.ok /\ outcome.err = "unsupported attribute group type"
        /\ \A t \in 0..15 :
              call.args[1] = GroupProbe(ProbedAfter, t) =>
                IF t = EndTag
                THEN /\ outcome.ok
                     /\ outcome.msg.attributes =
                            [EmptyAttributes EXCEPT !["operation"] = << AttrB >>]
                     /\ outcome.msg.data =
                            << Rec(TagKeyword, NameA, << 120 >>) \o << EndTag, 255 >> >>
                ELSE IF t \in { 1, 2, 4, 5 }
                THEN /\ outcome.ok
                     /\ outcome.msg.data = << << 255 >> >>
                     /\ \A g \in GroupNames :
                            outcome.msg.attributes[g] =
                                (IF g = "operation" THEN << AttrB >> ELSE << >>)
                                \o (IF g = GroupOfTag(t) THEN << AttrA >> ELSE << >>)
                ELSE ~outcome.ok /\ outcome.err = "unsupported attribute group type"

\* an octet below 0x10 that names no group was met after a group
C20_UnknownTagAfterGroup ==
    /\ pc = "returned" /\ call.fn = "parse"
    /\ call.args[1] = GroupProbe(ProbedAfter, 6)
    /\ ~outcome.ok /\ outcome.err = "unsupported attribute group type"

\* C21: a record of tag 0x7f with L >= 4 octets of value, the type T and then P, is
\* decoded as the record of tag T with the value P is, the records after it
\* included; with fewer than four octets of value decoding throws.
C21_ExtendedTag ==
    (pc = "returned" /\ call.fn = "parse") =>
        /\ \A T \in ExtendedTypes, P \in ExtendedPayloads, tail \in AfterRecord :
              call.args[1] = ExtendedMessage(T, P, tail) =>
                  outcome = IPPMessage(BaseMessage(T, P, tail))
        /\ \A V \in ShortExtendedValues, tail \in AfterRecord :
              call.args[1] = ShortExtendedMessage(V, tail) =>
                  /\ ~outcome.ok
                  /\ outcome.err = "met EOM while reading extended value tag of attribute"

\* an extended integer was decoded, and the attribute after it
C21_ExtendedIntegerDecoded ==
    /\ pc = "returned" /\ call.fn = "parse" /\ outcome.ok
    /\ call.args[1] = ExtendedMessage(TagInteger, << 0, 0, 0, 5 >>,
                                       Rec(TagKeyword, NameB, << 122 >>) \o << EndTag, 255 >>)
    /\ outcome.msg.attributes["operation"] =
           << Attr(NameA, << NativeNumber(TagInteger, 5) >>),
              Attr(NameB, << NativeString(TagKeyword, << 122 >>) >>) >>
    /\ outcome.msg.data = << << 255 >> >>

\* C22: toBuffer() of a range returns the length 8 and then eight octets, the lower
\* limit and the upper limit as 32-bit big-endian integers, ten octets in all, and
\* the decoder of tag 0x33 accepts a value of the length the buffer states.
C22_RangeEncoding ==
    (pc = "returned" /\ call.fn = "toBuffer" /\ call.args[1].cls = "TypeRange") =>
        /\ outcome.ok
        /\ outcome.buf = << 0, 8 >> \o writeInt32BE(call.args[1].a[1])
                                    \o writeInt32BE(call.args[1].a[2])
        /\ decodeRange(outcome.buf, 2, readInt16BE(outcome.buf, 0)).ok

KnownGroupOctets == GroupTags \cup { EndTag }

\* the offset after the end marker of GroupProbe(<< >>, t) when t starts a group
EndOfProbe == Len(GroupProbe(<< >>, 1)) - 1

\* C24 as the specification states it: where the scan expects a group tag, an octet
\* that is neither the end marker nor a group tag makes it return -1.
C24_UnknownGroupAborts ==
    (pc = "returned" /\ call.fn = "getEndOfHeaderIndex") =>
        \A t \in ProbedTags \ KnownGroupOctets :
            call.args[1] = GroupProbe(<< >>, t) => outcome.index = -1

\* C24: where the scan expects a group tag, the end marker ends the scan and every
\* other octet, a group tag or not, is taken for the start of a group whose
\* attributes are skipped; the decoder then refuses the header that was found when
\* the octet is no group tag.
C24_UnknownGroupSkipped ==
    (pc = "returned" /\ call.fn = "getEndOfHeaderIndex") =>
        \A t \in ProbedTags :
            call.args[1] = GroupProbe(<< >>, t) =>
                /\ outcome.index = (IF t = EndTag THEN HeaderStart + 1 ELSE EndOfProbe)
                /\ t \notin KnownGroupOctets =>
                       LET parsed == IPPMessage(Slice(call.args[1], 0, outcome.index))
                       IN  ~parsed.ok /\ parsed.err = "unsupported attribute group type"

\* the scan was given the octet 0x06 where a group tag is expected and found the
\* end marker behind the attribute that follows
C24_ScannedPastUnknownGroup ==
    /\ pc = "returned" /\ call.fn = "getEndOfHeaderIndex"
    /\ call.args[1] = GroupProbe(<< >>, 6)
    /\ outcome.index = EndOfProbe
    /\ call.args[1][outcome.index] = EndTag

(***************************************************************************)
(* Termination of the decoder, checked under SpecCalls.                    *)
(***************************************************************************)
RECURSIVE SumOfValues(_, _)
SumOfValues(pool, i) ==
    IF i > Len(pool) THEN 0 ELSE Len(pool[i].values) + SumOfValues(pool, i + 1)

\* the number of values of a decoded message
valuesOf(msg) ==
    SumOfValues(msg.attributes["operation"], 1) + SumOfValues(msg.attributes["job"], 1)
    + SumOfValues(msg.attributes["printer"], 1) + SumOfValues(msg.attributes["unsupported"], 1)

\* C25: parse returns a message or throws for every input: the first iteration of
\* the attribute loop, like every other, ends behind the offset it started at, the
\* loop ends, and a message holds no more values than the input has octets.
C25_DecodingTerminates ==
    (pc = "returned" /\ call.fn = "parse") =>
        LET data == call.args[1]
        IN  /\ outcome.err # "attribute loop still running"
            /\ outcome.ok => valuesOf(outcome.msg) <= Len(data)
            /\ (Len(data) > HeaderStart + 1 /\ readUInt8(data, HeaderStart) \in GroupTags) =>
                   LET it == parseAttribute(data, HeaderStart + 1, << >>, undefinedName)
                   IN  it.kind = "next" => it.pos > HeaderStart + 1

\* C26: for a well-formed message whose header, through the end marker, has h octets,
\* the scan of the first n octets returns -1 when n < h and h when n >= h.
C26_ScanExactOnPrefixes ==
    (pc = "returned" /\ call.fn = "getEndOfHeaderIndex") =>
        \A h \in ScanHeaders, b \in Bodies :
            \A n \in PrefixLengths(h \o b) :
                call.args[1] = SubSeq(h \o b, 1, n) =>
                    outcome.index = (IF n < Len(h) THEN -1 ELSE Len(h))

(***************************************************************************)
(* Errors and callbacks of the stream parser, checked under SpecStream.    *)
(***************************************************************************)
\* C27: a parser emits at most one "error" event, whatever is written and whenever
\* the writable side finishes.
C27_AtMostOneError ==
    Count(parser.log, "error") <= 1

\* C28: every call of _write calls its callback exactly once, with null, whatever
\* the state of the parser is, so that every chunk of the source is taken and the
\* writable side finishes.
C28_CallbackOnce ==
    /\ [][source' # source => parser'.wrote /\ parser'.done = << "null" >>]_vars
    /\ <>(pc = "finished")

\* chunks were written after the decoding of the header had failed, and the
\* writable side has finished
C28_WrittenAfterFailedDecode ==
    /\ pc = "finished" /\ source = << >> /\ parser.done = << "null" >>
    /\ Count(parser.log, "error") = 2
    /\ parser.collector # << >> /\ Len(whole) > Len(parser.collector[1])

(***************************************************************************)
(* Groups that occur more than once, checked under SpecCalls.              *)
(***************************************************************************)
Keyword(c) == NativeString(TagKeyword, << c >>)

\* C29: when a group occurs twice in a message, the attributes of both occurrences
\* are in the one bucket of the group: the values of an attribute named in both are
\* one sequence in the order of the wire, and no value is missing.
C29_RepeatedGroupMerged ==
    (pc = "returned" /\ call.fn = "parse") =>
        \A g \in GroupTags, between \in GroupsBetween :
            call.args[1] = RepeatedGroup(g, between) =>
                LET a == Attr(NameA, << Keyword(119), Keyword(120), Keyword(121), Keyword(122) >>)
                    b == Attr(NameB, << NativeNumber(TagInteger, 5) >>)
                    c == Attr(NameC, << NativeBoolean(TagBoolean, TRUE) >>)
                    h == IF between = << >> THEN "none" ELSE ATTRIBUTE_GROUP(between[1])
                IN  /\ outcome.ok
                    /\ valuesOf(outcome.msg) = (IF between = << >> THEN 5 ELSE 6)
                    /\ \A n \in GroupNames :
                           outcome.msg.attributes[n] =
                               IF n = ATTRIBUTE_GROUP(g)
                               THEN (IF n = h THEN << a, b, c >> ELSE << a, c >>)
                               ELSE IF n = h THEN << b >> ELSE << >>

\* the job group occurred twice with the printer group between its occurrences
C29_JobPrinterJob ==
    /\ pc = "returned" /\ call.fn = "parse" /\ outcome.ok
    /\ call.args[1] = RepeatedGroup(2, << 4 >> \o Rec(TagInteger, NameB, << 0, 0, 0, 5 >>))
    /\ Len(outcome.msg.attributes["job"]) = 2
    /\ Len(outcome.msg.attributes["job"][1].values) = 4
    /\ Len(outcome.msg.attributes["printer"]) = 1

(***************************************************************************)
(* Property of the middleware, checked under SpecMiddleware.               *)
(***************************************************************************)
\* C30: the middleware never calls next twice; when the request has ended, or was
\* unpiped by an error, it has called next once: without argument when the header
\* was parsed, with an error when parsing failed or the request ended too early.
C30_NextOnce ==
    /\ Len(nextCalls(parser)) <= 1
    /\ (pc = "ended" \/ parser.error # "") =>
           nextCalls(parser) = IF parser.message # << >> /\ parser.error = ""
                               THEN << "next()" >> ELSE << "next(error)" >>
    /\ parser.message # << >> => nextCalls(parser) = << "next()" >>

\* the decoding of the header has failed while chunks of the request were left
C30_FailedBeforeEndOfRequest ==
    /\ pc = "piping" /\ source # << >>
    /\ parser.error # "" /\ parser.message = << >>
    /\ nextCalls(parser) = << "next(error)" >>

====
